---- MODULE Spec2Model ----
(***************************************************************************)
(* A model of the k6 `run` command (src/run.go): source resolution         *)
(* (looksLikeURL, getSrcData, makeRunner), the option merge, the collector *)
(* string (parseCollectorString, makeCollector) and the control flow of    *)
(* actionRun with its engine goroutine, progress ticker and signals.       *)
(*                                                                         *)
(* Strings are sequences of one-character strings.                         *)
(***************************************************************************)
EXTENDS Integers, Sequences, FiniteSets, TLC

VARIABLES
    pc,          \* position of the main goroutine inside actionRun
    nargs,       \* len(cc.Args())
    arg,         \* args[0]
    runnerType,  \* cc.String("type")
    readRes,     \* what reading the source named by arg yields (stdin for "-")
    srcdata,     \* result of getSrcData
    runner,      \* result of makeRunner
    cliFlags,    \* the option flags given on the command line
    runnerOpts,  \* runner.GetOptions()
    configs,     \* the files named by --config, in order
    cfgIdx,      \* number of config files applied
    opts,        \* the local opts of actionRun
    applied,     \* what runner.ApplyOptions received
    out,         \* cc.String("out")
    collector,   \* result of makeCollector
    engineRes,   \* result of lib.NewEngine
    engine,      \* the engine's state: Status.AtTime, Status.Tainted
    epc,         \* position of the engine goroutine
    runEnd,      \* why engine.Run returned
    ctxDone,     \* the context is cancelled
    wgCount,     \* counter of the WaitGroup
    apiStarted,  \* the API server goroutine was started
    sigSent,     \* signals delivered to the process after signal.Notify
    sigRecv,     \* the loop received a signal
    final,       \* the engine state read for the final report
    ret          \* what actionRun returned

srcVars == <<nargs, arg, runnerType, readRes, srcdata, runner>>
optVars == <<cliFlags, runnerOpts, configs, cfgIdx, opts, applied>>
collVars == <<out, collector>>
engVars == <<engineRes, engine, epc, runEnd, ctxDone, wgCount, apiStarted>>
sigVars == <<sigSent, sigRecv>>
vars == <<pc, srcVars, optVars, collVars, engVars, sigVars, final, ret>>

(***************************************************************************)
(* Bounds.                                                                 *)
(***************************************************************************)
MaxArgLen == 3
MaxDataLen == 2

(***************************************************************************)
(* Strings.                                                                *)
(***************************************************************************)
Letters == {"h", "c", "m", "d", "l", "i", "n", "e"}
\* digits, '+', '-' and '.': allowed in a scheme, but not as its first character
SchemeExtra == {"-"}
Alphabet == {"h", ":", " ", "-"}

SeqsUpTo(S, n) == UNION {[1..k -> S] : k \in 0..n}

cmdline == <<"[", "c", "m", "d", "l", "i", "n", "e", "]">>
Stdin == <<"-">>

TypeAuto == "auto"
TypeURL == "url"
TypeJS == "js"

RECURSIVE TrimLeft(_)
TrimLeft(s) ==
    IF s # <<>> /\ Head(s) = " " THEN TrimLeft(Tail(s)) ELSE s

RECURSIVE TrimRight(_)
TrimRight(s) ==
    IF s # <<>> /\ s[Len(s)] = " " THEN TrimRight(SubSeq(s, 1, Len(s) - 1)) ELSE s

TrimSpace(s) == TrimRight(TrimLeft(s))

\* net/url getscheme: the scan for "<scheme>:" at the start of the string.
RECURSIVE SchemeScan(_, _)
SchemeScan(s, i) ==
    IF i > Len(s) THEN [scheme |-> <<>>, rest |-> s, err |-> FALSE]
    ELSE IF s[i] \in Letters THEN SchemeScan(s, i + 1)
    ELSE IF s[i] \in SchemeExtra THEN
        IF i = 1 THEN [scheme |-> <<>>, rest |-> s, err |-> FALSE]
        ELSE SchemeScan(s, i + 1)
    ELSE IF s[i] = ":" THEN
        IF i = 1 THEN [scheme |-> <<>>, rest |-> <<>>, err |-> TRUE]
        ELSE [scheme |-> SubSeq(s, 1, i - 1), rest |-> SubSeq(s, i + 1, Len(s)),
              err |-> FALSE]
    ELSE [scheme |-> <<>>, rest |-> s, err |-> FALSE]

HasColon(s) == \E i \in 1..Len(s) : s[i] = ":"

\* net/url Parse on the model's alphabet: with a scheme the rest is an opaque
\* part; without one a colon in the first path segment is an error.
URLParse(s) ==
    LET g == SchemeScan(s, 1) IN
    IF g.err THEN [scheme |-> <<>>, err |-> TRUE]
    ELSE IF g.scheme = <<>> /\ HasColon(g.rest) THEN [scheme |-> <<>>, err |-> TRUE]
    ELSE [scheme |-> g.scheme, err |-> FALSE]

LooksLikeURL(str) ==
    LET u == URLParse(TrimSpace(str)) IN
    IF u.err \/ u.scheme = <<>> THEN FALSE ELSE TRUE

(***************************************************************************)
(* getSrcData.  read is what the read of the source yields: ok and data.   *)
(* The result carries, besides the SourceData, the I/O the call did (io:   *)
(* "none", "file" or "stdin") and where the bytes came from (from: "arg",  *)
(* "file", "stdin", or "none" when no branch assigned srcdata).            *)
(***************************************************************************)
NoData == <<>>

SrcResult(err, data, filename, type, io, from) ==
    [err |-> err, SrcData |-> data, Filename |-> filename, SrcType |-> type,
     io |-> io, from |-> from]

\* a deduction that leaves the type as given
DeduceNever(type, data) == type

\* a deduction that re-classifies whatever the type
DeduceAlways(type, data) == IF LooksLikeURL(data) THEN TypeURL ELSE TypeJS

\* the type deduction at the end of getSrcData
Deduce(type, data) ==
    IF type = TypeAuto
    THEN IF LooksLikeURL(data) THEN TypeURL ELSE TypeJS
    ELSE type

Finish(data, filename, type, io, from) ==
    SrcResult(FALSE, data, filename, Deduce(type, data), io, from)

SrcError(io) == SrcResult(TRUE, NoData, <<>>, "", io, "none")

\* the argument as data that keeps the argument as file name
UseArgKeepName(a, type, io) == Finish(a, a, type, io, "arg")

\* srcdata = []byte(arg); filename = cmdline
UseArg(a, type, io) == Finish(a, cmdline, type, io, "arg")

\* srcdata, err = ioutil.ReadFile(arg) / ioutil.ReadAll(os.Stdin), err == nil
UseRead(a, type, read, io) == Finish(read.data, a, type, io, io)

GetSrcData(a, t, read) ==
    IF a = Stdin THEN
        IF ~read.ok THEN SrcError("stdin")
        ELSE UseRead(a, t, read, "stdin")
    ELSE IF t = TypeAuto THEN
        IF LooksLikeURL(a) THEN UseArg(a, TypeURL, "none")
        ELSE IF ~read.ok THEN UseArg(a, TypeJS, "file")
        ELSE UseRead(a, t, read, "file")
    ELSE IF t = TypeURL THEN
        IF LooksLikeURL(a) THEN UseArg(a, t, "none")
        ELSE IF ~read.ok THEN SrcError("file")
        ELSE UseRead(a, t, read, "file")
    ELSE IF t = TypeJS THEN
        IF ~read.ok THEN UseArg(a, t, "file")
        ELSE UseRead(a, t, read, "file")
    ELSE Finish(NoData, a, t, "none", "none")

(***************************************************************************)
(* makeRunner.  ext tells whether the runner package's constructor         *)
(* (simple.New, or js.New / Load / NewRunner) succeeds.                    *)
(***************************************************************************)
NoRunner == [err |-> FALSE, kind |-> "none"]

MakeRunner(src, ext) ==
    IF src.SrcType = "" THEN [err |-> TRUE, kind |-> "none"]
    ELSE IF src.SrcType = TypeURL THEN
        IF URLParse(TrimSpace(src.SrcData)).err
           \/ URLParse(TrimSpace(src.SrcData)).scheme = <<>>
        THEN [err |-> TRUE, kind |-> "none"]
        ELSE IF ~ext THEN [err |-> TRUE, kind |-> "none"]
        ELSE [err |-> FALSE, kind |-> "simple"]
    ELSE IF src.SrcType = TypeJS THEN
        IF ~ext THEN [err |-> TRUE, kind |-> "none"]
        ELSE [err |-> FALSE, kind |-> "js"]
    ELSE [err |-> TRUE, kind |-> "none"]


(***************************************************************************)
(* Collector strings.  A string is a sequence of symbols; "influxdb" and   *)
(* "json" stand for those words, "x" for any other text without "=".       *)
(***************************************************************************)
MaxOutLen == 4

OutAlphabet == {"=", "influxdb", "json", "x"}

RECURSIVE IndexFrom(_, _, _)
IndexFrom(s, c, i) ==
    IF i > Len(s) THEN 0
    ELSE IF s[i] = c THEN i
    ELSE IndexFrom(s, c, i + 1)

RECURSIVE LastIndexFrom(_, _, _)
LastIndexFrom(s, c, i) ==
    IF i < 1 THEN 0
    ELSE IF s[i] = c THEN i
    ELSE LastIndexFrom(s, c, i - 1)

\* a split at the last "=" instead of the first
SplitAtLast(s) ==
    LET i == LastIndexFrom(s, "=", Len(s)) IN
    IF i = 0 THEN <<s>>
    ELSE <<SubSeq(s, 1, i - 1), SubSeq(s, i + 1, Len(s))>>

\* strings.SplitN(s, "=", 2)
SplitN2(s) ==
    LET i == IndexFrom(s, "=", 1) IN
    IF i = 0 THEN <<s>>
    ELSE <<SubSeq(s, 1, i - 1), SubSeq(s, i + 1, Len(s))>>

ParseCollectorString(s) ==
    LET parts == SplitN2(s) IN
    IF Len(parts) # 2 THEN [t |-> <<>>, p |-> <<>>, err |-> TRUE]
    ELSE [t |-> parts[1], p |-> parts[2], err |-> FALSE]

NoCollector == [err |-> "none", kind |-> "none", dest |-> <<>>]

\* ext tells whether the collector package's constructor succeeds
MakeCollector(s, ext) ==
    LET r == ParseCollectorString(s) IN
    IF r.err THEN [err |-> "malformed", kind |-> "none", dest |-> <<>>]
    ELSE IF r.t = <<"influxdb">> THEN
        [err |-> IF ext THEN "none" ELSE "construct", kind |-> "influxdb", dest |-> r.p]
    ELSE IF r.t = <<"json">> THEN
        [err |-> IF ext THEN "none" ELSE "construct", kind |-> "json", dest |-> r.p]
    ELSE [err |-> "unknown", kind |-> "none", dest |-> <<>>]

(***************************************************************************)
(* Options: for each field a value and a valid flag.                       *)
(***************************************************************************)
MaxOpt == 1

DefaultVUs == 10
DefaultVUsMax == 0
DefaultDuration == 10

OptFields == {"VUs", "VUsMax", "Duration"}
Unset == [v |-> 0, valid |-> FALSE]
Set(x) == [v |-> x, valid |-> TRUE]
NoOpts == [f \in OptFields |-> Unset]

CliDefault(f) ==
    IF f = "VUs" THEN DefaultVUs
    ELSE IF f = "VUsMax" THEN DefaultVUsMax
    ELSE DefaultDuration

\* cliInt64(cc, name), cliDuration(cc, name): the flag's value, valid when the
\* flag was given; a flag not given has its default as value and is not valid.
CliValue(flags, f) ==
    IF flags[f].valid THEN flags[f] ELSE [v |-> CliDefault(f), valid |-> FALSE]

CliOptions(flags) == [f \in OptFields |-> CliValue(flags, f)]

\* lib.Options.Apply
Apply(o, other) ==
    [f \in OptFields |-> IF other[f].valid THEN other[f] ELSE o[f]]

\* lib.Options.SetAllValid(true)
SetAllValid(o) == [f \in OptFields |-> [v |-> o[f].v, valid |-> TRUE]]

FixVUsMax(o) ==
    IF ~o["VUsMax"].valid
    THEN [o EXCEPT !["VUsMax"] = [v |-> o["VUs"].v, valid |-> FALSE]]
    ELSE o

ConfigOK(o) == [status |-> "ok", opts |-> o]
ConfigUnreadable == [status |-> "unreadable", opts |-> NoOpts]
ConfigMalformed == [status |-> "malformed", opts |-> NoOpts]

(***************************************************************************)
(* Return values of actionRun, and the exit code of the process.           *)
(***************************************************************************)
NotReturned == [kind |-> "running", code |-> 0]
RetNil == [kind |-> "nil", code |-> 0]
RetErr == [kind |-> "error", code |-> 0]
ExitError(code) == [kind |-> "exit", code |-> code]

ExitUsage == 1
ExitTainted == 99

\* the process exit code for a value returned by the action
ExitCode(r) ==
    IF r.kind = "nil" THEN 0
    ELSE IF r.kind = "exit" THEN r.code
    ELSE 1

\* a last statement that forgets the taint
FinalReturnNil(tainted) == RetNil

\* if engine.Status.Tainted.Bool { return cli.NewExitError("", 99) }; return nil
FinalReturn(tainted) == IF tainted THEN ExitError(ExitTainted) ELSE RetNil

NoSrc == SrcResult(FALSE, NoData, <<>>, "", "none", "unset")
ReadFail == [ok |-> FALSE, data |-> NoData]
ReadOK(d) == [ok |-> TRUE, data |-> d]

NoEngine == [atTime |-> 0, tainted |-> FALSE]
NoFinal == [read |-> FALSE, atTime |-> 0]

(***************************************************************************)
(* Steps of actionRun, main goroutine.                                     *)
(***************************************************************************)
\* a setup step whose error is not returned
ProceedAnyway(failed, errRet, next) == pc' = next /\ ret' = ret

\* if err != nil { return err }
Proceed(failed, errRet, next) ==
    IF failed
    THEN pc' = "returned" /\ ret' = errRet
    ELSE pc' = next /\ ret' = ret

NArgs == {0, 1, 2}

\* the argument count check and the collection of the command line
Start(ArgSet, TypeSet, ReadSet, FlagSet, ConfigSet, OutSet) ==
    /\ pc = "start"
    /\ \E n \in NArgs : nargs' = n
    /\ IF nargs' # 1
       THEN /\ pc' = "returned"
            /\ ret' = ExitError(ExitUsage)
            /\ UNCHANGED <<arg, runnerType, readRes, cliFlags, configs, opts, out>>
       ELSE /\ pc' = "getSrcData"
            /\ ret' = ret
            /\ arg' \in ArgSet
            /\ runnerType' \in TypeSet
            /\ readRes' \in ReadSet
            /\ (arg' = <<>> => ~readRes'.ok)
            /\ cliFlags' \in FlagSet
            /\ configs' \in ConfigSet
            /\ out' \in OutSet
            /\ opts' = CliOptions(cliFlags')
    /\ UNCHANGED <<srcdata, runner, runnerOpts, cfgIdx, applied, collector>>
    /\ UNCHANGED <<engVars, sigVars, final>>

GetSrcDataStep ==
    /\ pc = "getSrcData"
    /\ srcdata' = GetSrcData(arg, runnerType, readRes)
    /\ Proceed(srcdata'.err, RetErr, "makeRunner")
    /\ UNCHANGED <<nargs, arg, runnerType, readRes, runner>>
    /\ UNCHANGED <<optVars, collVars, engVars, sigVars, final>>

MakeRunnerStep(ROptSet) ==
    /\ pc = "makeRunner"
    /\ \E ext \in BOOLEAN :
        /\ runner' = MakeRunner(srcdata, ext)
        /\ IF runner'.err THEN runnerOpts' = runnerOpts ELSE runnerOpts' \in ROptSet
        /\ Proceed(runner'.err, RetErr, "applyRunnerOptions")
    /\ UNCHANGED <<nargs, arg, runnerType, readRes, srcdata>>
    /\ UNCHANGED <<cliFlags, configs, cfgIdx, opts, applied>>
    /\ UNCHANGED <<collVars, engVars, sigVars, final>>

\* opts = opts.Apply(runner.GetOptions())
ApplyRunnerOptionsStep ==
    /\ pc = "applyRunnerOptions"
    /\ opts' = Apply(opts, runnerOpts)
    /\ pc' = "config"
    /\ UNCHANGED <<cliFlags, runnerOpts, configs, cfgIdx, applied>>
    /\ UNCHANGED <<srcVars, collVars, engVars, sigVars, final, ret>>

\* one turn of the loop over cc.StringSlice("config")
ConfigStep ==
    /\ pc = "config"
    /\ IF cfgIdx = Len(configs)
       THEN pc' = "finalize" /\ UNCHANGED <<opts, cfgIdx, ret>>
       ELSE LET c == configs[cfgIdx + 1] IN
            /\ Proceed(c.status # "ok", ExitError(ExitUsage), "config")
            /\ IF c.status # "ok"
               THEN UNCHANGED <<opts, cfgIdx>>
               ELSE opts' = Apply(opts, c.opts) /\ cfgIdx' = cfgIdx + 1
    /\ UNCHANGED <<cliFlags, runnerOpts, configs, applied>>
    /\ UNCHANGED <<srcVars, collVars, engVars, sigVars, final>>

\* the VUsMax default, SetAllValid and runner.ApplyOptions
FinalizeStep ==
    /\ pc = "finalize"
    /\ opts' = SetAllValid(FixVUsMax(opts))
    /\ applied' = opts'
    /\ pc' = "makeCollector"
    /\ UNCHANGED <<cliFlags, runnerOpts, configs, cfgIdx>>
    /\ UNCHANGED <<srcVars, collVars, engVars, sigVars, final, ret>>

MakeCollectorStep ==
    /\ pc = "makeCollector"
    /\ IF out = <<>>
       THEN pc' = "newEngine" /\ UNCHANGED <<collector, ret>>
       ELSE \E ext \in BOOLEAN :
            /\ collector' = MakeCollector(out, ext)
            /\ Proceed(collector'.err # "none", RetErr, "newEngine")
    /\ UNCHANGED out
    /\ UNCHANGED <<srcVars, optVars, engVars, sigVars, final>>

\* lib.NewEngine(runner), context.WithCancel
NewEngineStep ==
    /\ pc = "newEngine"
    /\ \E ok \in BOOLEAN :
        /\ engineRes' = IF ok THEN "ok" ELSE "err"
        /\ Proceed(~ok, RetErr, "spawnEngine")
    /\ UNCHANGED <<engine, epc, runEnd, ctxDone, wgCount, apiStarted>>
    /\ UNCHANGED <<srcVars, optVars, collVars, sigVars, final>>

\* wg.Add(1); go func() { ... engine.Run(ctx) ... }()
SpawnEngineStep ==
    /\ pc = "spawnEngine"
    /\ wgCount' = wgCount + 1
    /\ epc' = "run"
    /\ pc' = "spawnAPI"
    /\ UNCHANGED <<engineRes, engine, runEnd, ctxDone, apiStarted>>
    /\ UNCHANGED <<srcVars, optVars, collVars, sigVars, final, ret>>

\* go func() { api.ListenAndServe(addr, engine) }(); banner; signal.Notify; ticker
SpawnAPIStep ==
    /\ pc = "spawnAPI"
    /\ apiStarted' = TRUE
    /\ pc' = "select"
    /\ UNCHANGED <<engineRes, engine, epc, runEnd, ctxDone, wgCount>>
    /\ UNCHANGED <<srcVars, optVars, collVars, sigVars, final, ret>>

(***************************************************************************)
(* The wait loop, the shutdown and the final report.                       *)
(***************************************************************************)
MaxTime == 2
MaxSignals == 2

\* case <-ticker.C: the main goroutine leaves the select for the case's body
TickStep ==
    /\ pc = "select"
    /\ pc' = "tick"
    /\ UNCHANGED <<srcVars, optVars, collVars, engVars, sigVars, final, ret>>

\* the body of the ticker case: the progress line; back to the select
TickBodyStep ==
    /\ pc = "tick"
    /\ pc' = "select"
    /\ UNCHANGED <<srcVars, optVars, collVars, engVars, sigVars, final, ret>>

\* case <-ctx.Done(): break loop
CtxDoneStep ==
    /\ pc = "select"
    /\ ctxDone
    /\ pc' = "shutdown"
    /\ UNCHANGED <<srcVars, optVars, collVars, engVars, sigVars, final, ret>>

AfterNotify == pc \in {"select", "tick", "shutdown", "wait", "render", "exitcode"}

\* An interrupt or SIGTERM reaches the process.  signals is an unbuffered
\* channel and the signal package does not block sending to it: the signal is
\* received (case sig := <-signals: break loop) when the main goroutine waits in
\* the select, and is dropped otherwise.
SignalArrives ==
    /\ AfterNotify
    /\ sigSent < MaxSignals
    /\ sigSent' = sigSent + 1
    /\ IF pc = "select"
       THEN pc' = "shutdown" /\ sigRecv' = TRUE
       ELSE UNCHANGED <<pc, sigRecv>>
    /\ UNCHANGED <<srcVars, optVars, collVars, engVars, final, ret>>

\* cancel() after the loop
ShutdownStep ==
    /\ pc = "shutdown"
    /\ ctxDone' = TRUE
    /\ pc' = "wait"
    /\ UNCHANGED <<engineRes, engine, epc, runEnd, wgCount, apiStarted>>
    /\ UNCHANGED <<srcVars, optVars, collVars, sigVars, final, ret>>

\* a shutdown that does not wait for the engine goroutine
WaitStepNoWait ==
    /\ pc = "wait"
    /\ pc' = "render"
    /\ UNCHANGED <<srcVars, optVars, collVars, engVars, sigVars, final, ret>>

\* wg.Wait()
WaitStep ==
    /\ pc = "wait"
    /\ wgCount = 0
    /\ pc' = "render"
    /\ UNCHANGED <<srcVars, optVars, collVars, engVars, sigVars, final, ret>>

\* the final progress line, the groups and checks, the metrics and thresholds
RenderStep ==
    /\ pc = "render"
    /\ final' = [read |-> TRUE, atTime |-> engine.atTime]
    /\ pc' = "exitcode"
    /\ UNCHANGED <<srcVars, optVars, collVars, engVars, sigVars, ret>>

ReturnStep ==
    /\ pc = "exitcode"
    /\ ret' = FinalReturn(engine.tainted)
    /\ pc' = "returned"
    /\ UNCHANGED <<srcVars, optVars, collVars, engVars, sigVars, final>>

(***************************************************************************)
(* The engine goroutine.  engine.Run is code of package lib: it advances   *)
(* Status.AtTime, may latch Status.Tainted, and returns when its context   *)
(* is cancelled, when a finite Duration has elapsed, when a taint aborts   *)
(* the run, or with an error.                                              *)
(***************************************************************************)
EngineWork ==
    /\ epc = "run"
    /\ engine.atTime < MaxTime
    /\ \E t \in BOOLEAN :
        engine' = [atTime |-> engine.atTime + 1, tainted |-> engine.tainted \/ t]
    /\ UNCHANGED <<engineRes, epc, runEnd, ctxDone, wgCount, apiStarted>>
    /\ UNCHANGED <<pc, srcVars, optVars, collVars, sigVars, final, ret>>

EngineReturns(cause) ==
    /\ epc = "run"
    /\ epc' = "cancel"
    /\ runEnd' = cause
    /\ UNCHANGED <<engineRes, engine, ctxDone, wgCount, apiStarted>>
    /\ UNCHANGED <<pc, srcVars, optVars, collVars, sigVars, final, ret>>

EngineReturnsOnCancel == ctxDone /\ EngineReturns("cancelled")

EngineReturnsOnDuration == applied["Duration"].v > 0 /\ EngineReturns("duration")

EngineReturnsOnTaint == engine.tainted /\ EngineReturns("abort")

EngineReturnsError == epc = "run" /\ EngineReturns("error")

\* cancel() in the engine goroutine, after engine.Run
EngineCancel ==
    /\ epc = "cancel"
    /\ ctxDone' = TRUE
    /\ epc' = "deferred"
    /\ UNCHANGED <<engineRes, engine, runEnd, wgCount, apiStarted>>
    /\ UNCHANGED <<pc, srcVars, optVars, collVars, sigVars, final, ret>>

\* the deferred wg.Done()
EngineDone ==
    /\ epc = "deferred"
    /\ wgCount' = wgCount - 1
    /\ epc' = "exited"
    /\ UNCHANGED <<engineRes, engine, runEnd, ctxDone, apiStarted>>
    /\ UNCHANGED <<pc, srcVars, optVars, collVars, sigVars, final, ret>>

(***************************************************************************)
(* The run command as a whole.                                             *)
(***************************************************************************)
RunArgs == {Stdin, <<"h">>}
RunTypes == {TypeAuto, TypeURL, "xml"}
RunReads == {ReadFail, ReadOK(<<"h", ":">>)}
RunFlags == {NoOpts, [f \in OptFields |-> IF f = "VUs" THEN Set(1) ELSE Set(0)]}
RunRunnerOpts == {NoOpts, [NoOpts EXCEPT !["Duration"] = Set(1)]}
RunConfigs == {<<>>, <<ConfigUnreadable>>, <<ConfigMalformed>>,
               <<ConfigOK([NoOpts EXCEPT !["VUs"] = Set(1)])>>}
RunOuts == {<<>>, <<"x">>, <<"x", "=", "x">>, <<"json", "=", "x">>}

\* nothing of the collector, the engine, the loop or the report has happened
InitTail ==
    /\ collector = NoCollector
    /\ engineRes = "none"
    /\ engine = NoEngine
    /\ epc = "none"
    /\ runEnd = "none"
    /\ ctxDone = FALSE
    /\ wgCount = 0
    /\ apiStarted = FALSE
    /\ sigSent = 0
    /\ sigRecv = FALSE
    /\ final = NoFinal
    /\ ret = NotReturned

\* no source was resolved and no option merged yet
InitHead ==
    /\ nargs = 1
    /\ srcdata = NoSrc
    /\ runner = NoRunner
    /\ runnerOpts = NoOpts
    /\ cfgIdx = 0
    /\ applied = NoOpts

Init ==
    /\ pc = "start"
    /\ arg = <<>>
    /\ runnerType = TypeAuto
    /\ readRes = ReadFail
    /\ cliFlags = NoOpts
    /\ configs = <<>>
    /\ opts = NoOpts
    /\ out = <<>>
    /\ InitHead
    /\ InitTail

Setup ==
    \/ Start(RunArgs, RunTypes, RunReads, RunFlags, RunConfigs, RunOuts)
    \/ GetSrcDataStep
    \/ MakeRunnerStep(RunRunnerOpts)
    \/ ApplyRunnerOptionsStep
    \/ ConfigStep
    \/ FinalizeStep
    \/ MakeCollectorStep
    \/ NewEngineStep
    \/ SpawnEngineStep
    \/ SpawnAPIStep

MainLoop ==
    \/ TickStep
    \/ TickBodyStep
    \/ CtxDoneStep
    \/ ShutdownStep
    \/ WaitStep
    \/ RenderStep
    \/ ReturnStep

EngineGoroutine ==
    \/ EngineWork
    \/ EngineReturnsOnCancel
    \/ EngineReturnsOnDuration
    \/ EngineReturnsOnTaint
    \/ EngineReturnsError
    \/ EngineCancel
    \/ EngineDone

Next == Setup \/ MainLoop \/ EngineGoroutine \/ SignalArrives

Spec == Init /\ [][Next]_vars

FairSpec ==
    /\ Spec
    /\ WF_vars(Setup)
    /\ WF_vars(TickBodyStep)
    /\ SF_vars(CtxDoneStep)
    /\ WF_vars(ShutdownStep)
    /\ WF_vars(WaitStep)
    /\ WF_vars(RenderStep)
    /\ WF_vars(ReturnStep)
    /\ WF_vars(EngineReturnsOnCancel)
    /\ WF_vars(EngineReturnsOnDuration)
    /\ WF_vars(EngineCancel)
    /\ WF_vars(EngineDone)

(***************************************************************************)
(* Source resolution on its own: every argument, type and read outcome.    *)
(***************************************************************************)
Args == SeqsUpTo(Alphabet, MaxArgLen) \cup {cmdline}
Datas == SeqsUpTo(Alphabet, MaxDataLen)
Types == {TypeAuto, TypeURL, TypeJS, "", "xml"}
Reads == {ReadFail} \cup {ReadOK(d) : d \in Datas}

InitSrc ==
    /\ pc = "getSrcData"
    /\ arg \in Args
    /\ runnerType \in Types
    /\ readRes \in Reads
    /\ (arg = <<>> => ~readRes.ok)   \* no file has the empty name
    /\ cliFlags = NoOpts
    /\ configs = <<>>
    /\ opts = CliOptions(cliFlags)
    /\ out = <<>>
    /\ InitHead
    /\ InitTail

NextSrc == GetSrcDataStep \/ MakeRunnerStep({NoOpts})

SpecSrc == InitSrc /\ [][NextSrc]_vars

(***************************************************************************)
(* The option merge on its own: every combination of the layers.           *)
(***************************************************************************)
MaxConfigs == 2

\* an inline script was resolved and its runner made
SourceResolved ==
    /\ nargs = 1
    /\ arg = <<"h">>
    /\ runnerType = TypeJS
    /\ readRes = ReadFail
    /\ srcdata = GetSrcData(arg, runnerType, readRes)
    /\ runner = MakeRunner(srcdata, TRUE)

OptValues == {Unset} \cup {Set(x) : x \in 0..MaxOpt}
Layers == [OptFields -> OptValues]
ConfigFiles == {ConfigOK(o) : o \in Layers}

InitMerge ==
    /\ pc = "applyRunnerOptions"
    /\ SourceResolved
    /\ cliFlags \in Layers
    /\ runnerOpts \in Layers
    /\ configs \in SeqsUpTo(ConfigFiles, MaxConfigs)
    /\ cfgIdx = 0
    /\ opts = CliOptions(cliFlags)
    /\ applied = NoOpts
    /\ out = <<>>
    /\ InitTail

NextMerge == ApplyRunnerOptionsStep \/ ConfigStep \/ FinalizeStep

SpecMerge == InitMerge /\ [][NextMerge]_vars

(***************************************************************************)
(* The collector string on its own: every string of --out.                 *)
(***************************************************************************)
Outs == SeqsUpTo(OutAlphabet, MaxOutLen)

InitColl ==
    /\ pc = "makeCollector"
    /\ SourceResolved
    /\ cliFlags = NoOpts
    /\ runnerOpts = NoOpts
    /\ configs = <<>>
    /\ cfgIdx = 0
    /\ opts = SetAllValid(FixVUsMax(CliOptions(cliFlags)))
    /\ applied = opts
    /\ out \in Outs
    /\ InitTail

NextColl == MakeCollectorStep

SpecColl == InitColl /\ [][NextColl]_vars

(***************************************************************************)
(* Claims about source resolution (specification SpecSrc).                 *)
(***************************************************************************)
SrcDone == pc # "getSrcData"
ValidTypes == {TypeAuto, TypeURL, TypeJS}

\* C3: getSrcData with type auto: an argument (not "-") that looks like a URL
\* (looksLikeURL: it parses, surrounding white space trimmed, with a non-empty
\* scheme) gives kind url with the argument as data and no file read; any other
\* argument is read as a file; a failed read gives kind js with the argument as
\* inline data; content read from stdin or from the file gets kind url exactly
\* when the content looks like a URL, js otherwise; and a non-stdin argument
\* never gives an error.
C3_AutoResolution ==
    (SrcDone /\ runnerType = TypeAuto) =>
        /\ (arg # Stdin /\ LooksLikeURL(arg)) =>
              /\ ~srcdata.err
              /\ srcdata.SrcType = TypeURL
              /\ srcdata.SrcData = arg
              /\ srcdata.io = "none"
        /\ (arg # Stdin /\ ~LooksLikeURL(arg)) =>
              /\ srcdata.io = "file"
              /\ ~readRes.ok =>
                    /\ ~srcdata.err
                    /\ srcdata.SrcType = TypeJS
                    /\ srcdata.SrcData = arg
        /\ ((arg = Stdin \/ ~LooksLikeURL(arg)) /\ readRes.ok) =>
              /\ ~srcdata.err
              /\ srcdata.SrcData = readRes.data
              /\ srcdata.SrcType \in {TypeURL, TypeJS}
              /\ srcdata.SrcType = TypeURL <=> LooksLikeURL(readRes.data)
        /\ arg # Stdin => ~srcdata.err

\* C3 witness: type auto, a file whose content is the URL "h:" was read and
\* classified as url.
C3_Witness ==
    /\ SrcDone /\ runnerType = TypeAuto /\ arg = <<"h">>
    /\ readRes = ReadOK(<<"h", ":">>)
    /\ srcdata.SrcType = TypeURL /\ srcdata.SrcData = <<"h", ":">>
    /\ srcdata.io = "file"

\* C4: getSrcData with an explicit type url or js and a non-stdin argument
\* returns the requested kind unchanged; for url the data is the argument when
\* it looks like a URL, otherwise the content of the file, and a failed read is
\* an error with no SourceData; for js the data is the content of the file when
\* it is readable, otherwise the argument, and there is never an error.
C4_ExplicitType ==
    (SrcDone /\ arg # Stdin) =>
        /\ runnerType = TypeURL =>
              /\ ~srcdata.err => srcdata.SrcType = TypeURL
              /\ LooksLikeURL(arg) => (~srcdata.err /\ srcdata.SrcData = arg)
              /\ (~LooksLikeURL(arg) /\ readRes.ok) =>
                    (~srcdata.err /\ srcdata.SrcData = readRes.data)
              /\ (~LooksLikeURL(arg) /\ ~readRes.ok) =>
                    (srcdata.err /\ srcdata.SrcData = NoData /\ srcdata.from = "none")
        /\ runnerType = TypeJS =>
              /\ ~srcdata.err
              /\ srcdata.SrcType = TypeJS
              /\ readRes.ok => srcdata.SrcData = readRes.data
              /\ ~readRes.ok => srcdata.SrcData = arg

\* C4 witness: type js, the file holds text that looks like a URL, and the kind
\* is still js.
C4_Witness ==
    /\ SrcDone /\ runnerType = TypeJS /\ arg = <<"h">>
    /\ readRes = ReadOK(<<"h", ":">>)
    /\ ~srcdata.err /\ srcdata.SrcType = TypeJS /\ srcdata.SrcData = <<"h", ":">>

\* C5 as stated: every SourceData returned without error, for every argument
\* and every value of the type flag, has kind url or js, and its file name is
\* "[cmdline]" exactly when its data is the argument itself.
C5_Original ==
    (SrcDone /\ ~srcdata.err) =>
        /\ srcdata.SrcType \in {TypeURL, TypeJS}
        /\ srcdata.Filename = cmdline <=> srcdata.from = "arg"

\* C5 as amended: a SourceData returned without error has kind url or js when
\* the type flag is auto, url or js; for any other value of the flag its kind is
\* that value unchanged, and makeRunner then fails.  Its file name is
\* "[cmdline]" whenever its data is the argument itself and is the argument
\* otherwise.
C5_Kinds ==
    (SrcDone /\ ~srcdata.err) =>
        /\ runnerType \in ValidTypes => srcdata.SrcType \in {TypeURL, TypeJS}
        /\ runnerType \notin ValidTypes =>
              /\ srcdata.SrcType = runnerType
              /\ pc # "makeRunner" => (runner.err /\ ret = RetErr)
        /\ srcdata.from = "arg" => srcdata.Filename = cmdline
        /\ srcdata.from # "arg" => srcdata.Filename = arg

\* C5 witness: an unrecognised type went through getSrcData unchanged and was
\* rejected by makeRunner.
C5_Witness ==
    /\ pc = "returned" /\ runnerType = "xml" /\ ~srcdata.err
    /\ srcdata.SrcType = "xml" /\ runner.err /\ ret = RetErr

(***************************************************************************)
(* Claims about the option merge (specification SpecMerge).                *)
(***************************************************************************)
OptionsApplied == \A f \in OptFields : applied[f].valid

\* the layers in the claimed order of precedence, lowest first
ClaimedLayers ==
    <<runnerOpts>> \o [i \in 1..Len(configs) |-> configs[i].opts] \o <<cliFlags>>

SetBy(f) == {i \in 1..Len(ClaimedLayers) : ClaimedLayers[i][f].valid}
Top(S) == CHOOSE i \in S : \A j \in S : j <= i

\* C1: for every option field the value handed to runner.ApplyOptions is the
\* value of the highest layer that sets the field, the layers being, lowest to
\* highest: runner defaults, config files in the order given, CLI flags; a field
\* set on the command line is never overwritten.
C1_Original ==
    OptionsApplied =>
        \A f \in OptFields :
            /\ SetBy(f) # {} => applied[f].v = ClaimedLayers[Top(SetBy(f))][f].v
            /\ cliFlags[f].valid => applied[f].v = cliFlags[f].v

\* C2: the options handed to runner.ApplyOptions have VUsMax >= VUs, and a
\* VUsMax that no layer set equals VUs.
C2_Original ==
    OptionsApplied =>
        /\ applied["VUsMax"].v >= applied["VUs"].v
        /\ SetBy("VUsMax") = {} => applied["VUsMax"].v = applied["VUs"].v

(***************************************************************************)
(* Claims about the collector string (specification SpecColl).             *)
(***************************************************************************)
HasEq(s) == \E i \in 1..Len(s) : s[i] = "="
FirstEq(s) == CHOOSE i \in 1..Len(s) : s[i] = "=" /\ \A j \in 1..(i - 1) : s[j] # "="

\* C7: makeCollector accepts only <kind>=<destination>, split at the first "=":
\* a string without "=" is malformed, a kind other than influxdb or json is an
\* unknown output type, and only for influxdb or json is a collector
\* constructed, its destination being exactly the text after the first "=".
C7_CollectorString ==
    (pc # "makeCollector" /\ out # <<>>) =>
        /\ ~HasEq(out) =>
              (collector.err = "malformed" /\ collector.kind = "none" /\ ret = RetErr)
        /\ HasEq(out) =>
              LET k == SubSeq(out, 1, FirstEq(out) - 1)
                  d == SubSeq(out, FirstEq(out) + 1, Len(out))
              IN  /\ k \notin {<<"influxdb">>, <<"json">>} =>
                        /\ collector.err = "unknown"
                        /\ collector.kind = "none"
                        /\ ret = RetErr
                  /\ k = <<"influxdb">> =>
                        (collector.kind = "influxdb" /\ collector.dest = d)
                  /\ k = <<"json">> =>
                        (collector.kind = "json" /\ collector.dest = d)

\* C7 witness: "json=x=" made a json collector whose destination is "x=".
C7_Witness ==
    /\ pc = "newEngine" /\ out = <<"json", "=", "x", "=">>
    /\ collector.err = "none" /\ collector.kind = "json"
    /\ collector.dest = <<"x", "=">>

(***************************************************************************)
(* Claims about actionRun as a whole (specifications Spec, FairSpec).    *)
(***************************************************************************)
ConfigFailed ==
    /\ pc = "returned"
    /\ cfgIdx < Len(configs)
    /\ configs[cfgIdx + 1].status # "ok"

SetupFailed ==
    \/ nargs # 1
    \/ srcdata.err
    \/ runner.err
    \/ ConfigFailed
    \/ collector.err # "none"
    \/ engineRes = "err"

AllSetupOK ==
    /\ nargs = 1
    /\ srcdata.from # "unset" /\ ~srcdata.err
    /\ runner.kind # "none" /\ ~runner.err
    /\ cfgIdx = Len(configs)
    /\ collector.err = "none"
    /\ out # <<>> => collector.kind # "none"
    /\ engineRes = "ok"

\* C6: actionRun's outcome gives exit code 1 for every usage or setup error, 99
\* exactly when setup succeeded and the engine is tainted when the run has
\* finished, and 0 (nil) otherwise, however the run ended.
C6_ExitCodes ==
    pc = "returned" =>
        /\ SetupFailed => (ret.kind \in {"error", "exit"} /\ ExitCode(ret) = ExitUsage)
        /\ ExitCode(ret) = ExitTainted <=> (~SetupFailed /\ engine.tainted)
        /\ (~SetupFailed /\ ~engine.tainted) => (ret = RetNil /\ ExitCode(ret) = 0)

\* C6 witness: engine.Run returned an error on a tainted run and actionRun
\* returned exit code 99.
C6_Witness ==
    /\ pc = "returned" /\ runEnd = "error" /\ engine.tainted
    /\ ret = ExitError(ExitTainted)

\* C8: when a setup step fails actionRun has returned an error and neither
\* engine.Run nor the API server was started; engine.Run and the API server are
\* started only after every setup step succeeded and the merged options were
\* applied to the runner.
C8_NoPartialRun ==
    /\ SetupFailed =>
          /\ pc = "returned"
          /\ ret.kind \in {"error", "exit"}
          /\ epc = "none"
          /\ ~apiStarted
    /\ (epc # "none" \/ apiStarted) =>
          /\ AllSetupOK
          /\ OptionsApplied
          /\ applied = opts

\* C8 witness: the last setup step, NewEngine, failed.
C8_Witness ==
    /\ engineRes = "err" /\ pc = "returned" /\ ret = RetErr
    /\ OptionsApplied /\ epc = "none" /\ ~apiStarted

\* C9: the context is cancelled before the shutdown proceeds, and the final
\* reads of the engine state (AtTime and the report, Tainted for the exit code)
\* happen only after engine.Run has returned and the WaitGroup is done, so they
\* give the final engine state.
C9_FinalReads ==
    /\ pc \in {"wait", "render", "exitcode"} => ctxDone
    /\ pc \in {"render", "exitcode"} => (epc = "exited" /\ wgCount = 0)
    /\ final.read => (epc = "exited" /\ final.atTime = engine.atTime)
    /\ (pc = "returned" /\ ~SetupFailed) =>
          /\ ctxDone
          /\ epc = "exited"
          /\ final.read
          /\ ret.kind = "exit" <=> engine.tainted

\* C9 witness: a signal ended a run that had made progress; the report shows
\* the engine's last AtTime.
C9_Witness ==
    /\ pc = "returned" /\ sigRecv /\ runEnd = "cancelled"
    /\ engine.atTime > 0 /\ final.read /\ final.atTime = engine.atTime

LoopLeft == pc \in {"shutdown", "wait", "render", "exitcode"}

\* C10: after a successful setup actionRun eventually returns (a) once an
\* interrupt or SIGTERM arrives, also for an unbounded run, and (b) once
\* engine.Run returns on its own; and the wait loop is never left while the
\* engine is still running unless a signal was received.
C10_Original ==
    /\ (sigSent > 0) ~> (pc = "returned")
    /\ (epc \in {"cancel", "deferred", "exited"}) ~> (pc = "returned")
    /\ [](LoopLeft => (epc # "run" \/ sigRecv))

====
